---- MODULE Spec2Model ----
(***************************************************************************)
(* USB-Screen: streams the PNG files of ./images, as raw RGB565 frames,    *)
(* to an RP2040 display found on a USB serial port (src/src/main.rs).      *)
(*                                                                         *)
(* The program is one thread.  Every blocking call of main is one action.  *)
(* The serial port enumeration, the directory listing, the image codec,    *)
(* the serial write and the clock are the environment: their results are   *)
(* drawn from small sets where the call is made.                           *)
(***************************************************************************)
EXTENDS Integers, Sequences, FiniteSets, TLC

(***************************************************************************)
(* Program constants                                                       *)
(***************************************************************************)
SCREEN_WIDTH == 320
SCREEN_HEIGHT == 240
\* const FRAME_DURATION: u128 = 1000 / 24 (integer division)
FRAME_DURATION == 1000 \div 24
\* vid: 0x2E8A, pid: 0x000A, baud 115_200
RP2040_VID == 11914
RP2040_PID == 10
BAUD_RATE == 115200

(***************************************************************************)
(* Bounds of the model                                                     *)
(***************************************************************************)
\* longest serial port enumeration
MaxPorts == 2
\* longest listing of ./images
MaxEntries == 2
\* device writes kept in the history window io
MaxWrites == 3

(***************************************************************************)
(* u16 arithmetic of rgb888_to_rgb565                                      *)
(***************************************************************************)
\* & and | bit by bit from the lowest bit, as functions so that an operand
\* is evaluated once
and16[x \in Nat, y \in Nat] ==
    IF x = 0 \/ y = 0 THEN 0
    ELSE ((x % 2) * (y % 2)) + 2 * and16[x \div 2, y \div 2]

or16[x \in Nat, y \in Nat] ==
    IF x = 0 THEN y
    ELSE IF y = 0 THEN x
    ELSE (IF (x % 2) + (y % 2) > 0 THEN 1 ELSE 0) + 2 * or16[x \div 2, y \div 2]

BitAnd(x, y) == and16[x, y]

BitOr(x, y) == or16[x, y]

\* << on u16: the bits shifted out of the 16-bit word are lost
Shl16(x, n) == (x * (2 ^ n)) % 65536

Shr(x, n) == x \div (2 ^ n)

\* the bytes low byte first, as to_le_bytes would give them
to_le_bytes(v) == << v % 256, v \div 256 >>

\* u16::to_be_bytes: high byte first
to_be_bytes(v) == << v \div 256, v % 256 >>

\* the packing with the green mask 0b11111000 of the red channel
rgb565_pixel_green5(pixel) ==
    BitOr(BitOr(Shl16(BitAnd(pixel[1], 248), 8), Shl16(BitAnd(pixel[2], 248), 3)),
          Shr(pixel[3], 3))

\* the packing without the masks
rgb565_pixel_unmasked(pixel) ==
    BitOr(BitOr(Shl16(pixel[1], 8), Shl16(pixel[2], 3)), Shr(pixel[3], 3))

\* a pixel is <<R, G, B, A>>; pixel[0], pixel[1], pixel[2] of the source are
\* pixel[1], pixel[2], pixel[3] here
rgb565_pixel(pixel) ==
    LET r == pixel[1]
        g == pixel[2]
        b == pixel[3]
    IN  BitOr(BitOr(Shl16(BitAnd(r, 248), 8), Shl16(BitAnd(g, 252), 3)), Shr(b, 3))

(***************************************************************************)
(* Rasters.  An image is [width, height, tile]: its width*height pixels in *)
(* row-major order are the tile repeated, pixel i (from 0) being           *)
(* tile[(i % Len(tile)) + 1].  A byte buffer is [len, tile] likewise.      *)
(* A 320x240 frame is held this way instead of as 76800 pixels.            *)
(***************************************************************************)
NumPixels(image) == image.width * image.height

PixelAt(image, i) == image.tile[(i % Len(image.tile)) + 1]

ByteAt(buf, j) == buf.tile[(j % Len(buf.tile)) + 1]

\* the loop body of rgb888_to_rgb565 over a run of pixels: two bytes are
\* appended per pixel, in the order of the pixels
RECURSIVE ExtendFromPixels(_)
ExtendFromPixels(pixels) ==
    IF pixels = <<>> THEN <<>>
    ELSE to_be_bytes(rgb565_pixel(Head(pixels))) \o ExtendFromPixels(Tail(pixels))

rgb888_to_rgb565(image) ==
    LET n     == NumPixels(image)
        t     == Len(image.tile)
        whole == ExtendFromPixels(image.tile)
        rest  == ExtendFromPixels(SubSeq(image.tile, 1, n % t))
    IN  [len  |-> (n \div t) * Len(whole) + Len(rest),
         tile |-> whole]

(***************************************************************************)
(* The environment                                                         *)
(***************************************************************************)
SeqsUpTo(S, n) == UNION {[1..k -> S] : k \in 0..n}

\* serialport::SerialPortInfo, by its port_type; the port name is the
\* position in the enumeration
PortTypes ==
    { [kind |-> "UsbPort", vid |-> RP2040_VID, pid |-> RP2040_PID],
      [kind |-> "UsbPort", vid |-> RP2040_VID, pid |-> 3],
      [kind |-> "UsbPort", vid |-> 1155, pid |-> RP2040_PID],
      [kind |-> "PciPort", vid |-> 0, pid |-> 0] }

PortLists == SeqsUpTo(PortTypes, MaxPorts)

\* an entry of fs::read_dir("./images"): ok = FALSE is an entry that came
\* back as Err; ext is the path's extension ("" when it has none); the path
\* is the position in the listing
DirEntries ==
    { [ok |-> FALSE, is_file |-> FALSE, ext |-> ""],
      [ok |-> TRUE, is_file |-> FALSE, ext |-> "png"],
      [ok |-> TRUE, is_file |-> TRUE, ext |-> ""],
      [ok |-> TRUE, is_file |-> TRUE, ext |-> "txt"],
      [ok |-> TRUE, is_file |-> TRUE, ext |-> "PNG"],
      [ok |-> TRUE, is_file |-> TRUE, ext |-> "Png"],
      [ok |-> TRUE, is_file |-> TRUE, ext |-> "png"] }

DirListings == SeqsUpTo(DirEntries, MaxEntries)

\* pixels and rasters image::open can return
Black == <<0, 0, 0, 255>>
White == <<255, 255, 255, 255>>
Sample == <<18, 52, 86, 255>>

Tiles == { <<Black>>, <<Sample, White>> }

SourceSizes == { <<1, 1>>, <<320, 240>>, <<640, 480>> }

Sources == { [width |-> s[1], height |-> s[2], tile |-> t] : s \in SourceSizes, t \in Tiles }

\* milliseconds a decode+resample and a write_all can take
DecodeMs == {0, 45}
WriteMs == {0, 10, 40, 41, 50}

(***************************************************************************)
(* State                                                                   *)
(***************************************************************************)
VARIABLES
    pc,          \* where main is
    err,         \* the Err main returned, "none" while it runs
    logs,        \* records written through the log macros
    ports,       \* what serialport::available_ports() returned
    portIdx,     \* position of the for loop of find_and_open_rp2040
    inspected,   \* positions whose port_type was compared
    opened,      \* open() calls made: [idx, baud]
    port,        \* the open session: [open, baud]
    dir,         \* what fs::read_dir listed
    nReadDir,    \* read_dir calls made
    images,      \* the Vec<String> select_images returned
    cursor,      \* position of `for image_path in &images`
    image,       \* the decoded frame of this iteration
    now,         \* the clock, in ms since this iteration began
    start_time,  \* Instant::now() of line 29
    wire,        \* the buffer last handed to port.write_all
    pace,        \* the pacing decision that ended the last iteration
    io,          \* history window: the decodes, writes and sleeps made
    wbase        \* writes that left the window, modulo Len(images)

vars == << pc, err, logs, ports, portIdx, inspected, opened, port, dir, nReadDir,
           images, cursor, image, now, start_time, wire, pace, io, wbase >>

NoPort == [open |-> FALSE, baud |-> 0]
NoImage == [width |-> 0, height |-> 0, tile |-> <<>>]
NoBuffer == [len |-> 0, tile |-> <<>>]
\* elapsed is -1 before any iteration ended; sleeps are the thread::sleep calls made
NoPace == [elapsed |-> -1, sleeps |-> <<>>]

Idle ==
    /\ err = "none"
    /\ logs = <<>>
    /\ ports = <<>>
    /\ portIdx = 0
    /\ inspected = {}
    /\ opened = <<>>
    /\ port = NoPort
    /\ dir = <<>>
    /\ nReadDir = 0
    /\ images = <<>>
    /\ cursor = 0
    /\ image = NoImage
    /\ now = 0
    /\ start_time = 0
    /\ wire = NoBuffer
    /\ pace = NoPace
    /\ io = <<>>
    /\ wbase = 0

Init ==
    /\ pc = "main"
    /\ Idle

Log(level, msg) == Append(logs, [level |-> level, msg |-> msg])

Fail(e) ==
    /\ pc' = "failed"
    /\ err' = e

(***************************************************************************)
(* main, lines 14-15                                                       *)
(***************************************************************************)
Start ==
    /\ pc = "main"
    /\ logs' = Log("info", "start")
    /\ pc' = "available_ports"
    /\ UNCHANGED << err, ports, portIdx, inspected, opened, port, dir, nReadDir,
                    images, cursor, image, now, start_time, wire, pace, io, wbase >>

(***************************************************************************)
(* find_and_open_rp2040                                                    *)
(***************************************************************************)
\* the comparison with the product id left out
MatchesVendorOnly(port_info) ==
    /\ port_info.kind = "UsbPort"
    /\ port_info.vid = RP2040_VID

\* port_type == UsbPort(UsbPortInfo { vid: 0x2E8A, pid: 0x000A, .. })
Matches(port_info) ==
    /\ port_info.kind = "UsbPort"
    /\ port_info.vid = RP2040_VID
    /\ port_info.pid = RP2040_PID

\* the loop keeping the last matching port instead of returning at the first
IsLastTarget(i) ==
    /\ Matches(ports[i])
    /\ \A j \in (i + 1)..Len(ports) : ~Matches(ports[j])

\* the condition of the loop body at position i
IsTarget(i) == Matches(ports[i])

\* serialport::available_ports()? returned Err
AvailablePortsErr ==
    /\ pc = "available_ports"
    /\ Fail("ports_error")
    /\ UNCHANGED << logs, ports, portIdx, inspected, opened, port, dir, nReadDir,
                    images, cursor, image, now, start_time, wire, pace, io, wbase >>

AvailablePorts ==
    /\ pc = "available_ports"
    /\ \E list \in PortLists :
          /\ ports' = list
          /\ portIdx' = 1
    /\ pc' = "scan"
    /\ UNCHANGED << err, logs, inspected, opened, port, dir, nReadDir,
                    images, cursor, image, now, start_time, wire, pace, io, wbase >>

\* the port at portIdx does not match: next port
SkipPort ==
    /\ pc = "scan"
    /\ portIdx <= Len(ports)
    /\ ~IsTarget(portIdx)
    /\ inspected' = inspected \cup {portIdx}
    /\ portIdx' = portIdx + 1
    /\ UNCHANGED << pc, err, logs, ports, opened, port, dir, nReadDir,
                    images, cursor, image, now, start_time, wire, pace, io, wbase >>

\* a failed open passed over for the next port of the enumeration
OpenPortFallThrough ==
    /\ pc = "scan"
    /\ portIdx <= Len(ports)
    /\ IsTarget(portIdx)
    /\ inspected' = inspected \cup {portIdx}
    /\ opened' = Append(opened, [idx |-> portIdx, baud |-> BAUD_RATE])
    /\ \/ /\ port' = [open |-> TRUE, baud |-> BAUD_RATE]
          /\ pc' = "connected"
          /\ portIdx' = portIdx
       \/ /\ portIdx' = portIdx + 1
          /\ UNCHANGED << port, pc >>
    /\ UNCHANGED << err, logs, ports, dir, nReadDir,
                    images, cursor, image, now, start_time, wire, pace, io, wbase >>

\* the port at portIdx matches: return serialport::new(name, 115_200).open(),
\* which main's `?` turns into its own return when it is an Err
OpenPort ==
    /\ pc = "scan"
    /\ portIdx <= Len(ports)
    /\ IsTarget(portIdx)
    /\ inspected' = inspected \cup {portIdx}
    /\ opened' = Append(opened, [idx |-> portIdx, baud |-> BAUD_RATE])
    /\ \/ /\ port' = [open |-> TRUE, baud |-> BAUD_RATE]
          /\ pc' = "connected"
          /\ err' = err
       \/ /\ Fail("open_error")
          /\ port' = port
    /\ UNCHANGED << logs, ports, portIdx, dir, nReadDir,
                    images, cursor, image, now, start_time, wire, pace, io, wbase >>

\* the enumeration is exhausted: Err("未找到RP2040设备")
NotFound ==
    /\ pc = "scan"
    /\ portIdx > Len(ports)
    /\ Fail("not_found")
    /\ UNCHANGED << logs, ports, portIdx, inspected, opened, port, dir, nReadDir,
                    images, cursor, image, now, start_time, wire, pace, io, wbase >>

\* main, lines 18-19: find_and_open_rp2040 returned Ok(port); its locals and
\* the record of its calls go with it
Connected ==
    /\ pc = "connected"
    /\ logs' = Log("info", "connected")
    /\ ports' = <<>>
    /\ portIdx' = 0
    /\ inspected' = {}
    /\ opened' = <<>>
    /\ pc' = "select_images"
    /\ UNCHANGED << err, port, dir, nReadDir,
                    images, cursor, image, now, start_time, wire, pace, io, wbase >>

(***************************************************************************)
(* select_images                                                           *)
(***************************************************************************)
\* the extension compared without regard to case
IsAssetAnyCase(entry) ==
    /\ entry.ok
    /\ entry.is_file
    /\ entry.ext \in {"png", "PNG", "Png"}

\* the closure of filter_map: Some(path) or None
IsAsset(entry) ==
    /\ entry.ok
    /\ entry.is_file
    /\ entry.ext = "png"

\* filter_map(..).collect(): the paths kept, in listing order
RECURSIVE FilterMap(_, _)
FilterMap(listing, i) ==
    IF i > Len(listing) THEN <<>>
    ELSE (IF IsAsset(listing[i]) THEN <<i>> ELSE <<>>) \o FilterMap(listing, i + 1)

\* fs::read_dir("./images")? returned Err
ReadDirErr ==
    /\ pc = "select_images"
    /\ nReadDir' = nReadDir + 1
    /\ Fail("read_dir_error")
    /\ UNCHANGED << logs, ports, portIdx, inspected, opened, port, dir,
                    images, cursor, image, now, start_time, wire, pace, io, wbase >>

\* select_images returned Ok(paths)
SelectImages ==
    /\ pc = "select_images"
    /\ nReadDir' = nReadDir + 1
    /\ \E listing \in DirListings :
          /\ dir' = listing
          /\ images' = FilterMap(listing, 1)
    /\ pc' = "selected"
    /\ UNCHANGED << err, logs, ports, portIdx, inspected, opened, port,
                    cursor, image, now, start_time, wire, pace, io, wbase >>

\* main, lines 22-26: the count is logged, the listing is gone, and `loop`
\* is entered with the for loop at the first path
Selected ==
    /\ pc = "selected"
    /\ logs' = Log("info", "selected")
    /\ dir' = <<>>
    /\ cursor' = 1
    /\ pc' = "for"
    /\ UNCHANGED << err, ports, portIdx, inspected, opened, port, nReadDir,
                    images, image, now, start_time, wire, pace, io, wbase >>

(***************************************************************************)
(* load_image                                                              *)
(***************************************************************************)
\* DynamicImage::resize, which keeps the aspect ratio inside the asked size
resize_keep_aspect(img, nwidth, nheight) ==
    IF img.width * nheight <= img.height * nwidth
    THEN [width |-> (img.width * nheight) \div img.height, height |-> nheight, tile |-> img.tile]
    ELSE [width |-> nwidth, height |-> (img.height * nwidth) \div img.width, tile |-> img.tile]

\* DynamicImage::resize_exact: the result has exactly the asked size, whatever
\* the source's size was; what the Lanczos3 filter makes of the content is the
\* codec's, the source's tile stands for it
resize_exact(img, nwidth, nheight) ==
    [width |-> nwidth, height |-> nheight, tile |-> img.tile]

\* the frames load_image can return: image::open gave some decodable raster
load_image_results == { resize_exact(img, SCREEN_WIDTH, SCREEN_HEIGHT) : img \in Sources }

(***************************************************************************)
(* The history window.  io keeps the calls of the iterations that made the *)
(* last writes; when MaxWrites writes are in it, the next iteration starts *)
(* it afresh and wbase counts the writes dropped, modulo Len(images).      *)
(***************************************************************************)
\* n is the length of the buffer of a write, 0 otherwise
Event(op, path, ok, n) == [op |-> op, path |-> path, ok |-> ok, n |-> n]

\* a write_all call: the frame that was encoded and the buffer handed over
WriteEvent(path, ok, frame, buf) ==
    [op |-> "write", path |-> path, ok |-> ok, n |-> buf.len, frame |-> frame, buf |-> buf]

Writes(h) == SelectSeq(h, LAMBDA e : e.op = "write")

WindowFull == Len(Writes(io)) >= MaxWrites

Window == IF WindowFull THEN <<>> ELSE io

WindowBase == IF WindowFull THEN (wbase + Len(Writes(io))) % Len(images) ELSE wbase

(***************************************************************************)
(* The streaming loop of main, lines 26-43                                 *)
(***************************************************************************)
\* the for loop started again one path too far
LoopAgainSkipFirst ==
    /\ pc = "for"
    /\ cursor > Len(images)
    /\ cursor' = IF Len(images) > 1 THEN 2 ELSE 1
    /\ UNCHANGED << pc, err, logs, ports, portIdx, inspected, opened, port, dir, nReadDir,
                    images, image, now, start_time, wire, pace, io, wbase >>

\* the for loop without the `loop` around it: main returns Ok(()) after one pass
LoopOnce ==
    /\ pc = "for"
    /\ cursor > Len(images)
    /\ pc' = "done"
    /\ UNCHANGED << err, logs, ports, portIdx, inspected, opened, port, dir, nReadDir,
                    images, cursor, image, now, start_time, wire, pace, io, wbase >>

\* the directory listed again each time the for loop is exhausted
LoopAgainRescan ==
    /\ pc = "for"
    /\ cursor > Len(images)
    /\ pc' = "select_images"
    /\ UNCHANGED << err, logs, ports, portIdx, inspected, opened, port, dir, nReadDir,
                    images, cursor, image, now, start_time, wire, pace, io, wbase >>

\* `for image_path in &images` is exhausted: `loop` starts it again
LoopAgain ==
    /\ pc = "for"
    /\ cursor > Len(images)
    /\ cursor' = 1
    /\ UNCHANGED << pc, err, logs, ports, portIdx, inspected, opened, port, dir, nReadDir,
                    images, image, now, start_time, wire, pace, io, wbase >>

\* the asset that failed to decode passed over for the next one
LoadImageErrSkip ==
    /\ pc = "for"
    /\ cursor <= Len(images)
    /\ io' = Append(Window, Event("decode", images[cursor], FALSE, 0))
    /\ wbase' = WindowBase
    /\ pace' = NoPace
    /\ cursor' = cursor + 1
    /\ UNCHANGED << pc, err, logs, ports, portIdx, inspected, opened, port, dir, nReadDir,
                    images, image, now, start_time, wire >>

\* load_image(image_path)? returned Err: main returns it
LoadImageErr ==
    /\ pc = "for"
    /\ cursor <= Len(images)
    /\ io' = Append(Window, Event("decode", images[cursor], FALSE, 0))
    /\ wbase' = WindowBase
    /\ pace' = NoPace
    /\ Fail("decode_error")
    /\ UNCHANGED << logs, ports, portIdx, inspected, opened, port, dir, nReadDir,
                    images, cursor, image, now, start_time, wire >>

\* the frame of an asset already written taken from a cache, without a decode
LoadImageCached ==
    /\ pc = "for"
    /\ cursor <= Len(images)
    /\ LET cached == \E k \in 1..Len(io) :
                         io[k].op = "write" /\ io[k].path = images[cursor]
       IN  /\ io' = IF cached THEN io
                    ELSE Append(Window, Event("decode", images[cursor], TRUE, 0))
           /\ wbase' = IF cached THEN wbase ELSE WindowBase
    /\ pace' = NoPace
    /\ \E frame \in load_image_results : image' = frame
    /\ \E d \in DecodeMs :
          /\ now' = d
          /\ start_time' = d
    /\ pc' = "send"
    /\ UNCHANGED << err, logs, ports, portIdx, inspected, opened, port, dir, nReadDir,
                    images, cursor, wire >>

\* lines 28-29: the frame is decoded, then start_time is taken
LoadImage ==
    /\ pc = "for"
    /\ cursor <= Len(images)
    /\ io' = Append(Window, Event("decode", images[cursor], TRUE, 0))
    /\ wbase' = WindowBase
    /\ pace' = NoPace
    /\ \E frame \in load_image_results : image' = frame
    /\ \E d \in DecodeMs :
          /\ now' = d
          /\ start_time' = d
    /\ pc' = "send"
    /\ UNCHANGED << err, logs, ports, portIdx, inspected, opened, port, dir, nReadDir,
                    images, cursor, wire >>

\* the encoder appending to the buffer of the frame before
SendImageReusedBuffer ==
    /\ pc = "send"
    /\ LET fresh  == rgb888_to_rgb565(image)
           rgb565 == [len |-> wire.len + fresh.len, tile |-> fresh.tile]
       IN  /\ wire' = rgb565
           /\ io' = Append(io, WriteEvent(images[cursor], TRUE, image, rgb565))
    /\ \E w \in WriteMs : now' = now + w
    /\ pc' = "pace"
    /\ UNCHANGED << err, logs, ports, portIdx, inspected, opened, port, dir, nReadDir,
                    images, cursor, image, start_time, pace, wbase >>

\* send_image_to_rp2040 returned Ok: one write_all of the encoded frame
SendImage ==
    /\ pc = "send"
    /\ LET rgb565 == rgb888_to_rgb565(image)
       IN  /\ wire' = rgb565
           /\ io' = Append(io, WriteEvent(images[cursor], TRUE, image, rgb565))
    /\ \E w \in WriteMs : now' = now + w
    /\ pc' = "pace"
    /\ UNCHANGED << err, logs, ports, portIdx, inspected, opened, port, dir, nReadDir,
                    images, cursor, image, start_time, pace, wbase >>

\* the failed write logged and the loop going on to the pacing
SendImageErrContinue ==
    /\ pc = "send"
    /\ LET rgb565 == rgb888_to_rgb565(image)
       IN  /\ wire' = rgb565
           /\ io' = Append(io, WriteEvent(images[cursor], FALSE, image, rgb565))
    /\ logs' = Log("error", "send failed")
    /\ pc' = "pace"
    /\ UNCHANGED << err, ports, portIdx, inspected, opened, port, dir, nReadDir,
                    images, cursor, image, now, start_time, pace, wbase >>

\* send_image_to_rp2040 returned Err: error!(..) and return Err(err)
SendImageErr ==
    /\ pc = "send"
    /\ LET rgb565 == rgb888_to_rgb565(image)
       IN  /\ wire' = rgb565
           /\ io' = Append(io, WriteEvent(images[cursor], FALSE, image, rgb565))
    /\ logs' = Log("error", "send failed")
    /\ Fail("write_error")
    /\ UNCHANGED << ports, portIdx, inspected, opened, port, dir, nReadDir,
                    images, cursor, image, now, start_time, pace, wbase >>

\* the comparison as <=
ShouldSleepAtBudget(elapsed) == elapsed <= FRAME_DURATION

\* line 39
ShouldSleep(elapsed) == elapsed < FRAME_DURATION

\* line 40: (FRAME_DURATION - elapsed) as u64; the difference is at most
\* FRAME_DURATION, which the cast keeps
SleepMillis(elapsed) == FRAME_DURATION - elapsed

\* the body ending with the iterator left where it was
EndIterationStay ==
    /\ cursor' = cursor
    /\ image' = NoImage
    /\ now' = 0
    /\ start_time' = 0
    /\ pc' = "for"

\* the body of the for loop ends: its locals go, the iterator advances
EndIteration ==
    /\ cursor' = cursor + 1
    /\ image' = NoImage
    /\ now' = 0
    /\ start_time' = 0
    /\ pc' = "for"

\* lines 38-41 with elapsed under the budget
Sleep ==
    /\ pc = "pace"
    /\ LET elapsed == now - start_time
       IN  /\ ShouldSleep(elapsed)
           /\ pace' = [elapsed |-> elapsed, sleeps |-> << SleepMillis(elapsed) >>]
           /\ io' = Append(io, Event("sleep", images[cursor], TRUE, 0))
    /\ EndIteration
    /\ UNCHANGED << err, logs, ports, portIdx, inspected, opened, port, dir, nReadDir,
                    images, wire, wbase >>

\* lines 38-39 with elapsed at or over the budget
NoSleep ==
    /\ pc = "pace"
    /\ LET elapsed == now - start_time
       IN  /\ ~ShouldSleep(elapsed)
           /\ pace' = [elapsed |-> elapsed, sleeps |-> <<>>]
    /\ EndIteration
    /\ UNCHANGED << err, logs, ports, portIdx, inspected, opened, port, dir, nReadDir,
                    images, wire, io, wbase >>

Next ==
    \/ Start
    \/ AvailablePortsErr
    \/ AvailablePorts
    \/ SkipPort
    \/ OpenPort
    \/ NotFound
    \/ Connected
    \/ ReadDirErr
    \/ SelectImages
    \/ Selected
    \/ LoopAgain
    \/ LoadImageErr
    \/ LoadImage
    \/ SendImage
    \/ SendImageErr
    \/ Sleep
    \/ NoSleep

Spec == Init /\ [][Next]_vars

\* the one thread is never held back: every call of main returns in the end,
\* so a step that can be taken is taken
LiveSpec == Init /\ [][Next]_vars /\ WF_vars(Next)

(***************************************************************************)
(* The pixel encoder alone: rgb888_to_rgb565 applied to small rasters      *)
(***************************************************************************)
Channels == {0, 1, 3, 4, 7, 8, 18, 52, 86, 128, 248, 252, 255}

Palette ==
    { Black, White, Sample,
      <<7, 3, 7, 0>>, <<248, 252, 248, 255>>, <<8, 4, 8, 255>> }

\* every 1x1 raster over Channels, every 2x1 raster over Palette
EncInputs ==
    { [width |-> 1, height |-> 1, tile |-> << <<r, g, b, a>> >>] :
          r \in Channels, g \in Channels, b \in Channels, a \in {0, 255} }
    \cup
    { [width |-> 2, height |-> 1, tile |-> <<p, q>>] : p \in Palette, q \in Palette }

EncInit ==
    /\ pc = "encode"
    /\ err = "none"
    /\ logs = <<>>
    /\ ports = <<>>
    /\ portIdx = 0
    /\ inspected = {}
    /\ opened = <<>>
    /\ port = NoPort
    /\ dir = <<>>
    /\ nReadDir = 0
    /\ images = <<>>
    /\ cursor = 0
    /\ image \in EncInputs
    /\ now = 0
    /\ start_time = 0
    /\ wire = NoBuffer
    /\ pace = NoPace
    /\ io = <<>>
    /\ wbase = 0

\* let rgb565 = rgb888_to_rgb565(&image)
Encode ==
    /\ pc = "encode"
    /\ wire' = rgb888_to_rgb565(image)
    /\ pc' = "encoded"
    /\ UNCHANGED << err, logs, ports, portIdx, inspected, opened, port, dir, nReadDir,
                    images, cursor, image, now, start_time, pace, io, wbase >>

EncNext == Encode

EncSpec == EncInit /\ [][EncNext]_vars

(***************************************************************************)
(* Properties                                                              *)
(***************************************************************************)
InLoop == pc \in {"for", "send", "pace"}

\* C1: with a non-empty asset sequence of length n, the k-th device write
\* (k from 0) carries the asset at index k mod n of the sequence: the writes
\* follow the enumeration order and wrap from the last asset to the first.
\* The j-th write of the window is write number wbase + j - 1 modulo n.
WritesInEnumerationOrder ==
    \A j \in 1..Len(Writes(io)) :
        /\ Len(images) > 0
        /\ Writes(io)[j].path = images[((wbase + j - 1) % Len(images)) + 1]

\* two assets, and the third write is the first asset again
WrappedToFirstAsset ==
    /\ Len(images) = 2
    /\ wbase = 0
    /\ Len(Writes(io)) >= 3
    /\ Writes(io)[1].path = images[1]
    /\ Writes(io)[2].path = images[2]
    /\ Writes(io)[3].path = images[1]

\* C2: a failed device write ends the run in the failed state with the write
\* error, and no decode, write or sleep follows it.
WriteFailureStopsTheRun ==
    /\ \A k \in 1..Len(io) :
          (io[k].op = "write" /\ ~io[k].ok) =>
              /\ k = Len(io)
              /\ pc = "failed"
              /\ err = "write_error"
    /\ (pc = "failed") => ~ENABLED Next

\* the second write failed after the first had succeeded
SecondWriteFailed ==
    /\ pc = "failed"
    /\ err = "write_error"
    /\ Len(Writes(io)) = 2
    /\ Writes(io)[1].ok
    /\ ~Writes(io)[2].ok

\* C3: after a successful write with elapsed time e ms and budget 41 ms, the
\* loop sleeps exactly 41 - e when e < 41 and makes no sleep call when
\* e >= 41; a sleep lasts between 1 and 41 ms; the loop is then at the next
\* asset.
PacingRule ==
    /\ FRAME_DURATION = 41
    /\ pace.elapsed >= 0 =>
          /\ pace.elapsed < 41 => pace.sleeps = << 41 - pace.elapsed >>
          /\ pace.elapsed >= 41 => pace.sleeps = <<>>
          /\ \A i \in 1..Len(pace.sleeps) : pace.sleeps[i] \in 1..41
          /\ pc = "for"
    /\ (pace.elapsed = 10) => pace.sleeps = <<31>>
    /\ (pace.elapsed = 50) => pace.sleeps = <<>>

\* an iteration took exactly the budget and did not sleep
ElapsedEqualsBudget ==
    /\ pace.elapsed = 41
    /\ pace.sleeps = <<>>
    /\ pc = "for"
    /\ Len(Writes(io)) >= 1

\* the 16-bit value the buffer holds for pixel i (from 0), high byte first
PackedAt(buf, i) == ByteAt(buf, 2 * i) * 256 + ByteAt(buf, 2 * i + 1)

\* C4: every pixel (R, G, B, A) is emitted as the 16-bit value
\* (R div 8) * 2048 + (G div 4) * 32 + (B div 8), high byte first, the pixels
\* in the order of the input.
PixelPacking ==
    (pc = "encoded") =>
        /\ Len(wire.tile) = 2 * Len(image.tile)
        /\ \A i \in 0..(NumPixels(image) - 1) :
              LET p == PixelAt(image, i)
                  v == (p[1] \div 8) * 2048 + (p[2] \div 4) * 32 + (p[3] \div 8)
              IN  /\ ByteAt(wire, 2 * i) = v \div 256
                  /\ ByteAt(wire, 2 * i + 1) = v % 256

\* a 2x1 raster of two different pixels was encoded, in its order
TwoPixelsEncodedInOrder ==
    /\ pc = "encoded"
    /\ image.tile = << <<8, 4, 8, 255>>, White >>
    /\ wire.tile = <<8, 33, 255, 255>>

\* C5 as stated: the pixel (0x12, 0x34, 0x56) is packed as 0x1AAA and emitted
\* as the bytes 0x1A, 0xAA.
SamplePixelIs1AAA ==
    (pc = "encoded" /\ NumPixels(image) = 1
        /\ SubSeq(image.tile[1], 1, 3) = <<18, 52, 86>>) =>
        /\ PackedAt(wire, 0) = 6826
        /\ wire.tile = <<26, 170>>

\* C5 as amended: the pixel (0x12, 0x34, 0x56) is packed as 0x11AA
\* (binary 00010 001101 01010) and emitted as the bytes 0x11, 0xAA.
SamplePixelIs11AA ==
    (pc = "encoded" /\ NumPixels(image) = 1
        /\ SubSeq(image.tile[1], 1, 3) = <<18, 52, 86>>) =>
        /\ PackedAt(wire, 0) = 4522
        /\ wire.tile = <<17, 170>>

\* the pixel (0x12, 0x34, 0x56) alone was encoded
SamplePixelEncoded ==
    /\ pc = "encoded"
    /\ image.tile = << <<18, 52, 86, 255>> >>
    /\ wire.len = 2

\* two pixels with the same top 5 bits of R and B and top 6 bits of G
SameTopBits(p, q) ==
    /\ p[1] \div 8 = q[1] \div 8
    /\ p[2] \div 4 = q[2] \div 4
    /\ p[3] \div 8 = q[3] \div 8

\* C6: (0,0,0) is packed as 0x0000, (255,255,255) and (0xF8,0xFC,0xF8) as
\* 0xFFFF, and pixels that differ only in the low 3 bits of R and B and the
\* low 2 bits of G are packed alike.
LowBitsIgnored ==
    (pc = "encoded") =>
        \A i \in 0..(NumPixels(image) - 1) :
            LET p == PixelAt(image, i)
            IN  /\ SubSeq(p, 1, 3) = <<0, 0, 0>> => PackedAt(wire, i) = 0
                /\ SubSeq(p, 1, 3) = <<255, 255, 255>> => PackedAt(wire, i) = 65535
                /\ SubSeq(p, 1, 3) = <<248, 252, 248>> => PackedAt(wire, i) = 65535
                /\ \A j \in 0..(NumPixels(image) - 1) :
                      SameTopBits(p, PixelAt(image, j)) =>
                          PackedAt(wire, i) = PackedAt(wire, j)

\* black and a pixel with only low bits set were encoded together
LowBitsPixelEncoded ==
    /\ pc = "encoded"
    /\ image.tile = << Black, <<7, 3, 7, 0>> >>
    /\ wire.tile = <<0, 0, 0, 0>>

\* C7: every device write carries exactly 320*240*2 = 153600 bytes, the two
\* bytes of each pixel of the decoded frame and nothing else, and each decoded
\* frame is handed to the port in a single write.
WholeFramePerWrite ==
    /\ SCREEN_WIDTH * SCREEN_HEIGHT * 2 = 153600
    /\ \A k \in 1..Len(io) :
          (io[k].op = "write") =>
              /\ io[k].n = 153600
              /\ k > 1
              /\ io[k - 1].op = "decode"
              /\ io[k - 1].path = io[k].path
    /\ (wire # NoBuffer) => wire.len = 153600
    /\ (pc = "pace") =>
          /\ wire.len = 2 * NumPixels(image)
          /\ Len(wire.tile) = 2 * Len(image.tile)

\* two frames were written, the second from the two-pixel tile
TwoFramesWritten ==
    /\ Len(Writes(io)) = 2
    /\ Writes(io)[1].ok
    /\ Writes(io)[2].n = 153600
    /\ wire.len = 153600
    /\ wire.tile = <<17, 170, 255, 255>>

\* C8 as stated: the streaming loop is never entered with an empty asset
\* sequence; an enumeration without assets makes the run fail before the loop.
LoopNeverEnteredEmpty ==
    InLoop => Len(images) > 0

\* the port enumeration was obtained (the locator inspects it, or has returned)
Enumerated ==
    \/ pc \in {"scan", "connected"}
    \/ pc = "failed" /\ err \in {"not_found", "open_error"}

\* a port reporting vendor-id 0x2E8A and product-id 0x000A
IsRP2040(port_info) ==
    port_info.kind = "UsbPort" /\ port_info.vid = 11914 /\ port_info.pid = 10

\* C9: when no enumerated port reports vendor-id 0x2E8A and product-id 0x000A,
\* the locator opens no port and returns the not-found error, and the run
\* ends in failure with no asset enumeration, decode or write.
NoMatchIsNotFound ==
    (Enumerated /\ \A i \in 1..Len(ports) : ~IsRP2040(ports[i])) =>
        /\ opened = <<>>
        /\ ~port.open
        /\ pc \in {"scan", "failed"}
        /\ (pc = "failed") => err = "not_found"
        /\ nReadDir = 0
        /\ io = <<>>
        /\ wire = NoBuffer

\* the run failed with not-found over a near-miss USB port and a non-USB port
NotFoundAmongOtherPorts ==
    /\ pc = "failed"
    /\ err = "not_found"
    /\ Len(ports) = 2
    /\ ports[1] = [kind |-> "UsbPort", vid |-> 11914, pid |-> 3]
    /\ ports[2].kind = "PciPort"
    /\ inspected = {1, 2}

\* C10: the port opened is the first one in enumeration order that reports
\* vendor-id 0x2E8A and product-id 0x000A, at 115200 baud; no other port is
\* opened and no port after the first match is inspected.
FirstMatchOpened ==
    /\ Len(opened) <= 1
    /\ \A k \in 1..Len(opened) :
          /\ opened[k].idx \in 1..Len(ports)
          /\ IsRP2040(ports[opened[k].idx])
          /\ opened[k].baud = 115200
          /\ \A j \in 1..(opened[k].idx - 1) : ~IsRP2040(ports[j])
    /\ \A i \in inspected : \A j \in 1..(i - 1) : ~IsRP2040(ports[j])
    /\ port.open => port.baud = 115200
    /\ (pc = "connected") => Len(opened) = 1

\* two matching ports were enumerated and the first was opened
FirstOfTwoMatchesOpened ==
    /\ pc = "connected"
    /\ Len(ports) = 2
    /\ IsRP2040(ports[1])
    /\ IsRP2040(ports[2])
    /\ opened = << [idx |-> 1, baud |-> 115200] >>
    /\ inspected = {1}

\* C11: a failed decode ends the run with the decode error: the asset is not
\* written, the next asset is not taken instead, and no write or sleep follows.
DecodeFailureStopsTheRun ==
    \A k \in 1..Len(io) :
        (io[k].op = "decode" /\ ~io[k].ok) =>
            /\ k = Len(io)
            /\ pc = "failed"
            /\ err = "decode_error"
            /\ cursor <= Len(images)
            /\ images[cursor] = io[k].path
            /\ ~ENABLED Next

\* the decode of the second frame failed after the first frame was written
SecondDecodeFailed ==
    /\ pc = "failed"
    /\ err = "decode_error"
    /\ Len(Writes(io)) = 1
    /\ Writes(io)[1].ok
    /\ io[Len(io)].op = "decode"
    /\ ~io[Len(io)].ok

\* the run entered `loop` (main logged the number of images)
StreamingStarted == \E i \in 1..Len(logs) : logs[i].msg = "selected"

\* C12: the run is in startup, streaming or failed, never returned with
\* success; a run that is not failed can still take a step; once streaming has
\* started the only end is the failed state, by a decode or a write error.
NoSuccessfulEnd ==
    /\ pc \in {"main", "available_ports", "scan", "connected", "select_images",
               "selected", "for", "send", "pace", "failed"}
    /\ (pc = "failed") <=> (err # "none")
    /\ (pc # "failed") => ENABLED Next
    /\ (pc = "failed" /\ StreamingStarted) => err \in {"decode_error", "write_error"}
    /\ StreamingStarted => (InLoop \/ pc = "failed")

\* the loop went through all assets and is at the first one again
LoopWentAround ==
    /\ pc = "for"
    /\ err = "none"
    /\ Len(images) = 2
    /\ cursor = 1
    /\ Len(Writes(io)) = 2

\* C13: the encoder is deterministic and stateless: two writes of a run that
\* encoded the same frame handed over the same bytes, whatever was encoded or
\* written in between.
SameFrameSameBytes ==
    \A i \in 1..Len(Writes(io)) : \A j \in 1..Len(Writes(io)) :
        (Writes(io)[i].frame = Writes(io)[j].frame) =>
            (Writes(io)[i].buf = Writes(io)[j].buf)

\* the same asset gave the same frame in two cycles, with another frame
\* written in between
SameFrameInTwoCycles ==
    /\ Len(images) = 2
    /\ Len(Writes(io)) = 3
    /\ Writes(io)[1].path = Writes(io)[3].path
    /\ Writes(io)[1].frame = Writes(io)[3].frame
    /\ Writes(io)[2].frame # Writes(io)[1].frame
    /\ Writes(io)[1].buf = Writes(io)[3].buf
    /\ Writes(io)[2].buf # Writes(io)[1].buf

\* C14: the enumeration returns, in listing order, exactly the entries that
\* are regular files with the extension "png" in lowercase; directories, files
\* without or with another extension and files with "PNG" or "Png" are left
\* out, and none of them makes the enumeration fail.
ExactlyThePngFiles ==
    (pc = "selected") =>
        /\ err = "none"
        /\ \A k \in 1..Len(images) : images[k] \in 1..Len(dir)
        /\ \A i \in 1..Len(dir) :
              (\E k \in 1..Len(images) : images[k] = i) <=>
                  (dir[i].is_file /\ dir[i].ext = "png")
        /\ \A k \in 1..(Len(images) - 1) : images[k] < images[k + 1]

\* a listing of a file named with "PNG" and a file named with "png"
UppercaseLeftOut ==
    /\ pc = "selected"
    /\ Len(dir) = 2
    /\ dir[1] = [ok |-> TRUE, is_file |-> TRUE, ext |-> "PNG"]
    /\ dir[2] = [ok |-> TRUE, is_file |-> TRUE, ext |-> "png"]
    /\ images = <<2>>

\* C15 as stated: the iteration-start timestamp is taken before the asset is
\* decoded, so the elapsed time compared with the budget covers decode,
\* encode and write (now counts from the start of the iteration).
TimestampBeforeDecode ==
    /\ (pc \in {"send", "pace"}) => start_time = 0
    /\ (pc = "pace") => (now - start_time) = now

\* C16: with a non-empty asset sequence, unless the run fails, every asset of
\* the sequence is written again and again: from any point of the loop each
\* asset is written later on, whether or not the iterations overrun the budget.
EveryAssetWrittenAgain ==
    \A a \in 1..MaxEntries :
        (InLoop /\ \E k \in 1..Len(images) : images[k] = a)
            ~> (pc = "failed" \/ (pc = "pace" /\ images[cursor] = a))

\* the second of two assets was written in the second round, after the
\* history window restarted, in an iteration over the budget
SecondAssetWrittenAgain ==
    /\ pc = "pace"
    /\ Len(images) = 2
    /\ cursor = 2
    /\ wbase = 1
    /\ Len(Writes(io)) = 1
    /\ now - start_time >= 41

\* C17 as stated: a run that ends with the device not found, with a decode
\* failure or with a write failure has emitted an error log record before.
EveryFailureLogged ==
    (pc = "failed" /\ err \in {"not_found", "decode_error", "write_error"}) =>
        \E i \in 1..Len(logs) : logs[i].level = "error"

Decodes(h) == SelectSeq(h, LAMBDA e : e.op = "decode")

\* C18: no decoded frame is reused: every write attempt directly follows one
\* decode of the same asset made in the same iteration, so the decodes
\* started are the write attempts plus at most one, the decode under way or
\* failed; a decode that fails on a later turn of an asset ends the run.
FreshDecodePerWrite ==
    /\ \A k \in 1..Len(io) :
          (io[k].op = "write") =>
              /\ k > 1
              /\ io[k - 1] = Event("decode", io[k].path, TRUE, 0)
    /\ \A k \in 1..(Len(io) - 1) :
          (io[k].op = "decode") => io[k + 1].op = "write"
    /\ Len(Decodes(io)) - Len(Writes(io)) \in {0, 1}
    /\ (Len(Decodes(io)) = Len(Writes(io)) + 1) =>
          /\ io[Len(io)].op = "decode"
          /\ (pc = "send" /\ io[Len(io)].ok) \/ (pc = "failed" /\ ~io[Len(io)].ok)
    /\ (InLoop /\ pc # "send") => Len(Decodes(io)) = Len(Writes(io))

\* the only asset was decoded and written in the first cycle and failed to
\* decode on its next turn
UndecodableOnNextTurn ==
    /\ Len(images) = 1
    /\ pc = "failed"
    /\ err = "decode_error"
    /\ Len(Writes(io)) = 1
    /\ Len(Decodes(io)) = 2
    /\ Decodes(io)[1].ok
    /\ ~Decodes(io)[2].ok
    /\ Decodes(io)[1].path = Decodes(io)[2].path

\* C19: startup happens once and in order: at most one open, made before the
\* directory is listed; at most one listing, made before any decode or write;
\* neither is made again once the loop runs or the run has failed.
StartupOnce ==
    /\ Len(opened) <= 1
    /\ nReadDir <= 1
    /\ (pc \in {"main", "available_ports", "scan"}) => (~port.open /\ nReadDir = 0)
    /\ (opened # <<>>) => (nReadDir = 0 /\ io = <<>>)
    /\ (port.open /\ pc # "connected") => (ports = <<>> /\ opened = <<>>)
    /\ (nReadDir = 1) => port.open
    /\ (pc = "select_images") => (nReadDir = 0 /\ io = <<>>)
    /\ (io # <<>>) => (nReadDir = 1 /\ port.open /\ dir = <<>>)

\* the loop came round to the only asset again, with one open and one listing
SecondCycleWithoutRescan ==
    /\ pc = "pace"
    /\ Len(images) = 1
    /\ Len(Writes(io)) = 2
    /\ nReadDir = 1
    /\ port.open

\* C20: when the open of the first matching port fails, the locator returns
\* that open error at once: no later port is inspected or opened, the error
\* is not 'not found', and the run ends before the directory is listed.
OpenErrorReturnedAtOnce ==
    (opened # <<>> /\ ~port.open) =>
        /\ pc = "failed"
        /\ err = "open_error"
        /\ Len(opened) = 1
        /\ \A j \in 1..(opened[1].idx - 1) : ~IsRP2040(ports[j])
        /\ IsRP2040(ports[opened[1].idx])
        /\ inspected = 1..opened[1].idx
        /\ nReadDir = 0
        /\ io = <<>>
        /\ ~ENABLED Next

\* the first of two matching ports could not be opened
FirstOfTwoMatchesBusy ==
    /\ pc = "failed"
    /\ err = "open_error"
    /\ Len(ports) = 2
    /\ IsRP2040(ports[1])
    /\ IsRP2040(ports[2])
    /\ opened = << [idx |-> 1, baud |-> 115200] >>
    /\ inspected = {1}

====
